---- MODULE Spec2Model ----
(***************************************************************************)
(* Model of YingYangTradingBot (src/class_yingyangvol.py): the volatility  *)
(* / band / signal / summary pipeline, the trade step and run().           *)
(*                                                                         *)
(* Numbers.  The program computes in binary floating point; the model      *)
(* computes in decimal fixed point: a float is either NaN or an integer    *)
(* count of 1/Scale units, and every division and square root rounds       *)
(* toward zero where the float operation rounds to nearest.  A float is    *)
(* written <<>> (NaN) or <<v>>; an attribute that may be None is written   *)
(* <<>> (None) or <<x>>.  Close prices are whole numbers (KRW), kept       *)
(* unscaled in the price frame.                                            *)
(*                                                                         *)
(* Frames.  A pandas frame is a function from its index (timestamps, here  *)
(* integers) to a record of its columns.                                   *)
(***************************************************************************)
EXTENDS Integers, Sequences, FiniteSets, TLC

\* ------------------------------------------------------------- bounds
\* the closes of an enumerated price series are drawn from 1..MaxPrice
MaxPrice == 3
\* the market clock runs over 0..MaxClock: a download at clock c returns the
\* candles c+1 .. c+count
MaxClock == 1
\* fixed-point units per 1.0
Scale == 1000

\* ---------------------------------------------------------- constants
\* the oscillator extreme a signal needs: YYL < -75 (Buy), YYL > 75 (Sell)
Threshold == 75

\* ------------------------------------------------------------ values
NaN == <<>>
None == <<>>
F(v) == <<v>>
Some(x) == <<x>>
IsNaN(x) == x = NaN
IsNone(x) == x = None
Val(x) == x[1]
Get(x) == x[1]

\* float division: NaN in, NaN out; 0/0 is NaN; rounds toward zero
TDiv(a, b) == IF a >= 0 THEN a \div b ELSE -((-a) \div b)

RECURSIVE SqrtSearch(_, _, _)
SqrtSearch(n, lo, hi) ==
    IF lo >= hi THEN lo
    ELSE LET mid == (lo + hi + 1) \div 2
         IN IF mid * mid <= n THEN SqrtSearch(n, mid, hi)
            ELSE SqrtSearch(n, lo, mid - 1)

\* np.sqrt on a non-negative value
Sqrt(n) == SqrtSearch(n, 0, IF n < 46340 THEN n ELSE 46340)

\* f itself, with every value computed once (TLC applies a function
\* constructor lazily, computing a value again each time it is read)
Eager(f) == f @@ <<>>

\* np.sqrt on a column
SqrtCol(x) ==
    Eager([t \in DOMAIN x |-> IF IsNaN(x[t]) THEN NaN ELSE F(Sqrt(Val(x[t])))])

RECURSIVE SumVals(_, _, _)
SumVals(x, a, b) == IF a > b THEN 0 ELSE Val(x[a]) + SumVals(x, a + 1, b)

First(S) == CHOOSE t \in S : \A u \in S : t <= u
Last(S) == CHOOSE t \in S : \A u \in S : u <= t

\* a rolling mean with min_periods = 1: the first rows average what there is
RollingMeanShortWindows(x, w) ==
    LET lo == First(DOMAIN x)
        from(t) == IF t - w + 1 < lo THEN lo ELSE t - w + 1
    IN Eager([t \in DOMAIN x |->
                IF \E j \in from(t)..t : IsNaN(x[j]) THEN NaN
                ELSE F(TDiv(SumVals(x, from(t), t), t - from(t) + 1))])

\* Series.rolling(window=w).mean(): min_periods = w, so a row has a value only
\* when its trailing window holds w rows, none of them NaN
RollingMean(x, w) ==
    LET lo == First(DOMAIN x)
    IN Eager([t \in DOMAIN x |->
                IF t - w + 1 < lo THEN NaN
                ELSE IF \E j \in (t - w + 1)..t : IsNaN(x[j]) THEN NaN
                ELSE F(TDiv(SumVals(x, t - w + 1, t), w))])

\* Series.ewm(span=sp, adjust=False).mean() on a column without NaN:
\* y0 = x0, y_t = (1 - a) y_(t-1) + a x_t with a = 2 / (sp + 1)
EwmMean(x, sp) ==
    LET lo == First(DOMAIN x)
        y[t \in DOMAIN x] ==
            IF t = lo THEN Val(x[t])
            ELSE TDiv((sp - 1) * y[t - 1] + 2 * Val(x[t]), sp + 1)
    IN Eager([t \in DOMAIN x |-> F(y[t])])

\* price['close'] as a float column
CloseCol(p) == Eager([t \in DOMAIN p |-> F(p[t] * Scale)])

\* the value of a column at a label the column may not have (index alignment)
At(x, t) == IF t \in DOMAIN x THEN x[t] ELSE NaN

\* ------------------------------------------------------ float columns
Add(a, b) == IF IsNaN(a) \/ IsNaN(b) THEN NaN ELSE F(Val(a) + Val(b))
Sub(a, b) == IF IsNaN(a) \/ IsNaN(b) THEN NaN ELSE F(Val(a) - Val(b))
Twice(a) == IF IsNaN(a) THEN NaN ELSE F(2 * Val(a))
Half(a) == IF IsNaN(a) THEN NaN ELSE F(TDiv(Val(a), 2))

\* diff**2 * (diff > 0): NaN stays NaN (NaN * False is NaN)
SquareIfUp(d) == IF IsNaN(d) THEN NaN ELSE F(IF Val(d) > 0 THEN Val(d) * Val(d) ELSE 0)
\* diff**2 * (diff <= 0)
SquareIfDown(d) == IF IsNaN(d) THEN NaN ELSE F(IF Val(d) <= 0 THEN Val(d) * Val(d) ELSE 0)

\* np.sqrt(yang_vol**2 + ying_vol**2)
TotalVol(yang, ying) ==
    IF IsNaN(yang) \/ IsNaN(ying) THEN NaN
    ELSE F(Sqrt(Val(yang) * Val(yang) + Val(ying) * Val(ying)))

\* an oscillator that is 0, not NaN, in a flat market
OscillatorZeroWhenFlat(yang, ying, total) ==
    IF IsNaN(total) \/ IsNaN(yang) \/ IsNaN(ying) THEN NaN
    ELSE IF Val(total) = 0 THEN F(0)
    ELSE F(TDiv((Val(yang) - Val(ying)) * Scale, Val(total)) * 100)

\* ((yang_vol - ying_vol) / total_vol) * 100: 0/0 is NaN, no error is raised
Oscillator(yang, ying, total) ==
    IF IsNaN(total) \/ IsNaN(yang) \/ IsNaN(ying) THEN NaN
    ELSE IF Val(total) = 0 THEN NaN
    ELSE F(TDiv((Val(yang) - Val(ying)) * Scale, Val(total)) * 100)

\* the moving average of calculate_volatility, by mode
Baseline(close, useEma, w) ==
    IF useEma THEN EwmMean(close, w) ELSE RollingMean(close, w)

\* the deviation taken the other way round
DeviationReversed(close, ma) == Sub(ma, close)

\* diff = price_close - ma
Deviation(close, ma) == Sub(close, ma)

\* the frame calculate_volatility builds from a non-empty price frame
VolatilityFrame(p, useEma, w, s) ==
    LET close == CloseCol(p)
        ma == Baseline(close, useEma, w)
        diff == Eager([t \in DOMAIN p |-> Deviation(close[t], ma[t])])
        up == Eager([t \in DOMAIN p |-> SquareIfUp(diff[t])])
        down == Eager([t \in DOMAIN p |-> SquareIfDown(diff[t])])
        yang == SqrtCol(RollingMean(up, w))
        ying == SqrtCol(RollingMean(down, w))
        total == Eager([t \in DOMAIN p |-> TotalVol(yang[t], ying[t])])
        yyl == Eager([t \in DOMAIN p |-> Oscillator(yang[t], ying[t], total[t])])
        slow == RollingMean(yyl, s)
    IN Eager([t \in DOMAIN p |->
                [ma |-> ma[t], yang_vol |-> yang[t], ying_vol |-> ying[t],
                 total_vol |-> total[t], YYL |-> yyl[t], YYL_slow |-> slow[t]]])

\* the frame calculate_pan_bands builds: the arithmetic aligns the price index
\* with the volatility frame's index, the result has the union of both
BandFrame(p, vol, s) ==
    LET ma == EwmMean(CloseCol(p), s)
        yang == [t \in DOMAIN vol |-> vol[t].yang_vol]
        ying == [t \in DOMAIN vol |-> vol[t].ying_vol]
        idx == DOMAIN p \cup DOMAIN vol
        upper == Eager([t \in idx |-> Add(At(ma, t), Twice(At(yang, t)))])
        lower == Eager([t \in idx |-> Sub(At(ma, t), Twice(At(ying, t)))])
    IN Eager([t \in idx |->
                [upper_band |-> upper[t], lower_band |-> lower[t],
                 pan_river_up |-> Half(Add(At(ma, t), upper[t])),
                 pan_river_down |-> Half(Add(At(ma, t), lower[t]))]])

\* a status without the 0 case: 1 if YYL > YYL_slow else -1
StatusTwoWay(yyl, slow) ==
    IF IsNaN(yyl) \/ IsNaN(slow) THEN -1
    ELSE IF Val(yyl) > Val(slow) THEN 1
    ELSE -1

\* the lambda of trading_signal: a comparison with NaN is False
Status(yyl, slow) ==
    IF IsNaN(yyl) \/ IsNaN(slow) THEN 0
    ELSE IF Val(yyl) > Val(slow) THEN 1
    ELSE IF Val(yyl) < Val(slow) THEN -1
    ELSE 0

BelowThreshold(yyl) == ~IsNaN(yyl) /\ Val(yyl) < -(Threshold * Scale)
AboveThreshold(yyl) == ~IsNaN(yyl) /\ Val(yyl) > Threshold * Scale

\* df['close'] of the joined frame: NaN at a label the price frame lacks
JoinedClose(p, t) == IF t \in DOMAIN p THEN F(p[t]) ELSE NaN

NoSignalRow == [Signal |-> 0, Position |-> 0, Entry_Price |-> F(0), Exit_Price |-> F(0)]

\* one pass of the loop body of trading_signal, for the row at label t (t is
\* not the first label); the previous row is the one before it in the index
SignalRow(p, vol, t) ==
    LET current_status == Status(vol[t].YYL, vol[t].YYL_slow)
        previous_status == Status(vol[t - 1].YYL, vol[t - 1].YYL_slow)
        signal_diff == current_status - previous_status
    IN IF (signal_diff = 2 \/ signal_diff = 1) /\ BelowThreshold(vol[t].YYL)
       THEN [NoSignalRow EXCEPT !.Signal = 1, !.Entry_Price = JoinedClose(p, t)]
       ELSE IF (signal_diff = -2 \/ signal_diff = -1) /\ AboveThreshold(vol[t].YYL)
       THEN [NoSignalRow EXCEPT !.Signal = -1, !.Exit_Price = JoinedClose(p, t)]
       ELSE NoSignalRow

\* the frame trading_signal builds: one row per label of the volatility frame,
\* zero-filled, the loop starting at the second row
SignalFrame(p, vol) ==
    LET lo == First(DOMAIN vol)
    IN Eager([t \in DOMAIN vol |->
                IF t = lo THEN NoSignalRow ELSE SignalRow(p, vol, t)])

\* a row of ying_yang_vol.join(pan_bands).join(close).join(signals) that dropna keeps
RowComplete(p, vol, bands, sig, t) ==
    /\ \A c \in {"ma", "yang_vol", "ying_vol", "total_vol", "YYL", "YYL_slow"} :
            ~IsNaN(vol[t][c])
    /\ t \in DOMAIN bands
    /\ \A c \in {"upper_band", "lower_band", "pan_river_up", "pan_river_down"} :
            ~IsNaN(bands[t][c])
    /\ t \in DOMAIN p
    /\ t \in DOMAIN sig
    /\ ~IsNaN(sig[t].Entry_Price) /\ ~IsNaN(sig[t].Exit_Price)

\* the index of the joined frame after dropna()
CleanIndex(p, vol, bands, sig) ==
    {t \in DOMAIN vol : RowComplete(p, vol, bands, sig, t)}

\* df.index[0]
SummaryRowFirst(rows) == First(rows)

\* df.index[-1]
SummaryRow(rows) == Last(rows)

SignalString(v) == IF v = 1 THEN "Buy" ELSE IF v = -1 THEN "Sell" ELSE "No Signal"

\* the one-row frame get_last_signal builds from a non-empty cleaned frame
Summary(p, sig, rows) ==
    LET t == SummaryRow(rows)
    IN [last_signal |-> SignalString(sig[t].Signal), timestamp |-> t,
        entry_price |-> p[t]]

\* --------------------------------------------------------------- state
VARIABLES
    ema, window, span, count,   \* the constructor's arguments
    tape, clock,                \* the market: its candles' closes, and the time
    price, ying_yang_vol, pan_bands, signals, last_signal,  \* self.<name>
    position,                   \* self.position: "neutral" or "long"
    outcome,                    \* the last call as its caller saw it
    trade,                      \* what the last execute_trade did at the exchange
    lastFill                    \* the side of the last order that succeeded

vars == <<ema, window, span, count, tape, clock, price, ying_yang_vol, pan_bands,
          signals, last_signal, position, outcome, trade, lastFill>>

config == <<ema, window, span, count, tape>>

\* the bot's attributes as one value, so that run() can chain the stages
Bot == [price |-> price, ying_yang_vol |-> ying_yang_vol, pan_bands |-> pan_bands,
        signals |-> signals, last_signal |-> last_signal, position |-> position]

\* the attributes after a call
Becomes(b) ==
    /\ price' = b.price
    /\ ying_yang_vol' = b.ying_yang_vol
    /\ pan_bands' = b.pan_bands
    /\ signals' = b.signals
    /\ last_signal' = b.last_signal
    /\ position' = b.position

Returned(b) == [bot |-> b, raised |-> FALSE]
Raised(b) == [bot |-> b, raised |-> TRUE]

\* a stage called on its own: the caller sees it return or raise
Called(name, r) == [op |-> name, result |-> IF r.raised THEN "raised" ELSE "returned",
                    steps |-> <<name>>, failed |-> IF r.raised THEN name ELSE "none",
                    notified |-> "none"]

NoCall == [op |-> "init", result |-> "returned", steps |-> <<>>, failed |-> "none",
           notified |-> "none"]

NoTrade == [signal |-> "none", before |-> "none", prevFill |-> "none",
            placed |-> "none", ok |-> FALSE, error |-> FALSE, after |-> "none"]

\* ------------------------------------------------------------ the market
\* pyupbit.get_ohlcv(symbol, interval, count): the latest count candles
Candles == [t \in (clock + 1)..(clock + count) |-> tape[t]]

\* what get_ohlcv can hand back: the candles, or None (any failure inside it)
MarketResponses == {Some(Candles), None}

\* upbit.get_balance: a balance (zero or positive) or None
BalanceResponses == {"zero", "positive", "none"}

\* upbit.buy_market_order / sell_market_order: an order, or a dict holding
\* 'error' (None and {} end the same way: order.get raises, or the else branch
\* raises, and the except clause catches it)
OrderResponses == {"ok", "error"}

\* what get_balance answers inside execute_trade: a zero balance takes the
\* same path there as a positive one
TradeBalances == {"positive", "none"}

\* get_current_position, from what get_balance answered
GetCurrentPosition(balance) == IF balance = "positive" THEN "long" ELSE "neutral"

\* ------------------------------------------------------------ the stages
DownloadData(b, resp) ==
    LET b1 == [b EXCEPT !.price = resp]
    IN IF IsNone(resp) THEN Raised(b1)
       ELSE IF DOMAIN Get(resp) = {} THEN Raised(b1)
       ELSE Returned(b1)

CalculateVolatility(b) ==
    IF IsNone(b.price) THEN Raised(b)
    ELSE IF DOMAIN Get(b.price) = {} THEN Raised(b)
    ELSE Returned([b EXCEPT !.ying_yang_vol =
                        Some(VolatilityFrame(Get(b.price), ema, window, span))])

CalculatePanBands(b) ==
    IF IsNone(b.ying_yang_vol) THEN Raised(b)
    ELSE IF IsNone(b.price) THEN Raised(b)       \* None['close']: TypeError
    ELSE Returned([b EXCEPT !.pan_bands =
                        Some(BandFrame(Get(b.price), Get(b.ying_yang_vol), span))])

TradingSignal(b) ==
    IF IsNone(b.ying_yang_vol) \/ IsNone(b.pan_bands) THEN Raised(b)
    ELSE IF IsNone(b.price) THEN Raised(b)       \* None['close']: TypeError
    ELSE Returned([b EXCEPT !.signals =
                        Some(SignalFrame(Get(b.price), Get(b.ying_yang_vol)))])

\* a get_last_signal that answers an empty table with a default summary
GetLastSignalOrDefault(b) ==
    IF IsNone(b.signals) THEN Raised(b)
    ELSE IF IsNone(b.price) THEN Raised(b)
    ELSE LET rows == CleanIndex(Get(b.price), Get(b.ying_yang_vol),
                                Get(b.pan_bands), Get(b.signals))
         IN IF rows = {}
            THEN Returned([b EXCEPT !.last_signal =
                                Some([last_signal |-> "No Signal", timestamp |-> 0,
                                      entry_price |-> 0])])
            ELSE Returned([b EXCEPT !.last_signal =
                                Some(Summary(Get(b.price), Get(b.signals), rows))])

GetLastSignal(b) ==
    IF IsNone(b.signals) THEN Raised(b)
    ELSE IF IsNone(b.price) THEN Raised(b)       \* None['close']: TypeError
    ELSE LET rows == CleanIndex(Get(b.price), Get(b.ying_yang_vol),
                                Get(b.pan_bands), Get(b.signals))
         IN IF rows = {} THEN Raised(b)          \* df.index[-1]: IndexError
            ELSE Returned([b EXCEPT !.last_signal =
                                Some(Summary(Get(b.price), Get(b.signals), rows))])

\* what execute_trade did, for a call that got as far as its try block: the
\* order it placed (side: "buy", "sell" or "none"), whether the order went
\* through (ok), whether the except clause caught a failure (error)
Traded(b, fill, sig, side, ok, error, pos) ==
    [bot |-> [b EXCEPT !.position = pos], raised |-> FALSE,
     fill |-> IF ok THEN side ELSE fill,
     trade |-> [signal |-> sig, before |-> b.position, prevFill |-> fill,
                placed |-> side, ok |-> ok, error |-> error, after |-> pos]]

\* an execute_trade that trades on the signal alone, whatever the position
ExecuteTradeAnyPosition(b, fill, balance, order) ==
    IF IsNone(b.last_signal)
    THEN [bot |-> b, raised |-> TRUE, fill |-> fill, trade |-> NoTrade]
    ELSE LET sig == Get(b.last_signal).last_signal
             pos == b.position
         IN IF sig = "Buy"
            THEN IF balance = "none" THEN Traded(b, fill, sig, "none", FALSE, TRUE, pos)
                 ELSE IF order = "ok" THEN Traded(b, fill, sig, "buy", TRUE, FALSE, "long")
                 ELSE Traded(b, fill, sig, "buy", FALSE, TRUE, pos)
            ELSE IF sig = "Sell"
            THEN IF balance = "none" THEN Traded(b, fill, sig, "none", FALSE, TRUE, pos)
                 ELSE IF order = "ok" THEN Traded(b, fill, sig, "sell", TRUE, FALSE, "neutral")
                 ELSE Traded(b, fill, sig, "sell", FALSE, TRUE, pos)
            ELSE Traded(b, fill, sig, "none", FALSE, FALSE, pos)

\* execute_trade; balance and order are what the exchange answers.  Every
\* failure inside the try block is caught and turned into the returned string
ExecuteTrade(b, fill, balance, order) ==
    IF IsNone(b.last_signal)
    THEN [bot |-> b, raised |-> TRUE, fill |-> fill, trade |-> NoTrade]
    ELSE LET sig == Get(b.last_signal).last_signal
             pos == b.position
         IN IF sig = "Buy" /\ pos = "neutral"
            THEN IF balance = "none" THEN Traded(b, fill, sig, "none", FALSE, TRUE, pos)
                 ELSE IF order = "ok" THEN Traded(b, fill, sig, "buy", TRUE, FALSE, "long")
                 ELSE Traded(b, fill, sig, "buy", FALSE, TRUE, pos)
            ELSE IF sig = "Sell" /\ pos = "long"
            THEN IF balance = "none" THEN Traded(b, fill, sig, "none", FALSE, TRUE, pos)
                 ELSE IF order = "ok" THEN Traded(b, fill, sig, "sell", TRUE, FALSE, "neutral")
                 ELSE Traded(b, fill, sig, "sell", FALSE, TRUE, pos)
            ELSE Traded(b, fill, sig, "none", FALSE, FALSE, pos)

\* the steps of run(), in the order of its try block
RunSteps == <<"download_data", "calculate_volatility", "calculate_pan_bands",
              "trading_signal", "get_last_signal", "execute_trade", "notion_update",
              "send_telegram_message">>

\* run() left its try block at step n: the except clause logs, sends the error
\* message, and run() returns
Caught(b, n, fill, tr) ==
    [bot |-> b, fill |-> fill, trade |-> tr,
     outcome |-> [op |-> "run", result |-> "returned", steps |-> SubSeq(RunSteps, 1, n),
                  failed |-> RunSteps[n], notified |-> "error"]]

\* run() went through its try block
Completed(b, fill, tr) ==
    [bot |-> b, fill |-> fill, trade |-> tr,
     outcome |-> [op |-> "run", result |-> "returned", steps |-> RunSteps,
                  failed |-> "none", notified |-> "update"]]

\* the first five calls of run(): the bot after them and the number of the
\* step that raised (0: none did)
RunStages(b, resp) ==
    LET r1 == DownloadData(b, resp)
        r2 == CalculateVolatility(r1.bot)
        r3 == CalculatePanBands(r2.bot)
        r4 == TradingSignal(r3.bot)
        r5 == GetLastSignal(r4.bot)
    IN IF r1.raised THEN [bot |-> r1.bot, at |-> 1]
       ELSE IF r2.raised THEN [bot |-> r2.bot, at |-> 2]
       ELSE IF r3.raised THEN [bot |-> r3.bot, at |-> 3]
       ELSE IF r4.raised THEN [bot |-> r4.bot, at |-> 4]
       ELSE IF r5.raised THEN [bot |-> r5.bot, at |-> 5]
       ELSE [bot |-> r5.bot, at |-> 0]

\* a run() whose cycle goes on to notion_update and the update message after a
\* stage raised
RunTradeRegardless(st, fill, tr, balance, order, notionOk) ==
    LET r6 == ExecuteTrade(st.bot, fill, balance, order)
    IN IF r6.raised THEN Caught(r6.bot, 6, fill, tr)
       ELSE IF ~notionOk THEN Caught(r6.bot, 7, r6.fill, r6.trade)
       ELSE Completed(r6.bot, r6.fill, r6.trade)

\* the rest of run(), from execute_trade on
RunTrade(st, fill, tr, balance, order, notionOk) ==
    LET r6 == ExecuteTrade(st.bot, fill, balance, order)
    IN IF st.at # 0 THEN Caught(st.bot, st.at, fill, tr)
       ELSE IF r6.raised THEN Caught(r6.bot, 6, fill, tr)
       ELSE IF ~notionOk THEN Caught(r6.bot, 7, r6.fill, r6.trade)
       ELSE Completed(r6.bot, r6.fill, r6.trade)

\* ------------------------------------------------------------- actions
download_data ==
    \E resp \in MarketResponses :
        LET r == DownloadData(Bot, resp)
        IN /\ Becomes(r.bot)
           /\ outcome' = Called("download_data", r)
           /\ UNCHANGED <<config, clock, trade, lastFill>>

calculate_volatility ==
    LET r == CalculateVolatility(Bot)
    IN /\ Becomes(r.bot)
       /\ outcome' = Called("calculate_volatility", r)
       /\ UNCHANGED <<config, clock, trade, lastFill>>

calculate_pan_bands ==
    LET r == CalculatePanBands(Bot)
    IN /\ Becomes(r.bot)
       /\ outcome' = Called("calculate_pan_bands", r)
       /\ UNCHANGED <<config, clock, trade, lastFill>>

trading_signal ==
    LET r == TradingSignal(Bot)
    IN /\ Becomes(r.bot)
       /\ outcome' = Called("trading_signal", r)
       /\ UNCHANGED <<config, clock, trade, lastFill>>

get_last_signal ==
    LET r == GetLastSignal(Bot)
    IN /\ Becomes(r.bot)
       /\ outcome' = Called("get_last_signal", r)
       /\ UNCHANGED <<config, clock, trade, lastFill>>

execute_trade ==
    \E balance \in TradeBalances, order \in OrderResponses :
        LET r == ExecuteTrade(Bot, lastFill, balance, order)
        IN /\ Becomes(r.bot)
           /\ outcome' = Called("execute_trade", r)
           /\ trade' = IF r.raised THEN trade ELSE r.trade
           /\ lastFill' = r.fill
           /\ UNCHANGED <<config, clock>>

run ==
    \E resp \in MarketResponses :
        \E st \in {RunStages(Bot, resp)} :
           \E balance \in TradeBalances, order \in OrderResponses,
              notionOk \in BOOLEAN :
                LET r == RunTrade(st, lastFill, trade, balance, order, notionOk)
                IN /\ Becomes(r.bot)
                   /\ outcome' = r.outcome
                   /\ trade' = r.trade
                   /\ lastFill' = r.fill
                   /\ UNCHANGED <<config, clock>>

\* time passes: the next candle closes
Tick ==
    /\ clock < MaxClock
    /\ clock' = clock + 1
    /\ UNCHANGED <<config, price, ying_yang_vol, pan_bands, signals, last_signal,
                   position, outcome, trade, lastFill>>

\* ------------------------------------------------------- specifications
\* the attributes __init__ sets, for a bot built with the arguments c
Constructed(c, balance) ==
    /\ ema = c.ema
    /\ window = c.window
    /\ span = c.span
    /\ count = c.count
    /\ clock = 0
    /\ price = None
    /\ ying_yang_vol = None
    /\ pan_bands = None
    /\ signals = None
    /\ last_signal = None
    /\ position = GetCurrentPosition(balance)
    /\ outcome = NoCall
    /\ trade = NoTrade
    /\ lastFill = "none"

\* --- Spec: the bot over its life: any call at any time, while the market
\* moves on.  The market repeats one of a few patterns: a fall and a small
\* recovery (a Buy), a rise and a setback (a Sell) that turns (a Buy), a fall
\* into a flat stretch (a summary, then a table without a defined row), a
\* steady rise, a flat market
LifeConfigs == {[ema |-> TRUE, window |-> 2, span |-> 2, count |-> 3]}

LifePatterns ==
    {<<3, 1, 2>>, <<1, 5, 3, 4>>, <<2, 1, 1, 3>>, <<1, 2, 3>>, <<1, 1, 1>>}

Repeated(pat, n) == [t \in 1..n |-> pat[((t - 1) % Len(pat)) + 1]]

Init ==
    \E c \in LifeConfigs, balance \in BalanceResponses, pat \in LifePatterns :
        /\ Constructed(c, balance)
        /\ tape = Repeated(pat, c.count + MaxClock)

Next ==
    \/ download_data
    \/ calculate_volatility
    \/ calculate_pan_bands
    \/ trading_signal
    \/ get_last_signal
    \/ execute_trade
    \/ run
    \/ Tick

Spec == Init /\ [][Next]_vars

\* --- SpecPipe: the pipeline as a function of one price series, the input.
\* The bot holds the downloaded series and the stages are called on it, in
\* any order.  Series of one candle (nothing warms up), of window + span - 1
\* candles (one row warms up) and of window + span + 1 candles
PipeConfigs ==
    {[ema |-> e, window |-> 2, span |-> 2, count |-> n] :
        e \in BOOLEAN, n \in {1, 3, 5}}

InitPipe ==
    \E c \in PipeConfigs :
        /\ tape \in [1..c.count -> 1..MaxPrice]
        /\ ema = c.ema /\ window = c.window /\ span = c.span /\ count = c.count
        /\ clock = 0
        /\ price = Some(tape)
        /\ ying_yang_vol = None /\ pan_bands = None /\ signals = None
        /\ last_signal = None
        /\ position = "neutral"
        /\ outcome = Called("download_data", Returned(Bot))
        /\ trade = NoTrade
        /\ lastFill = "none"

NextPipe ==
    \/ calculate_volatility
    \/ calculate_pan_bands
    \/ trading_signal
    \/ get_last_signal

SpecPipe == InitPipe /\ [][NextPipe]_vars

\* --- SpecVol: calculate_volatility as a function of one price series of
\* 2 * window + span candles, in both modes
VolConfigs ==
    {[ema |-> e, window |-> 2, span |-> 2, count |-> 6] : e \in BOOLEAN} \cup
    {[ema |-> e, window |-> 3, span |-> 1, count |-> 7] : e \in BOOLEAN}

InitVol ==
    \E c \in VolConfigs :
        /\ tape \in [1..c.count -> 1..MaxPrice]
        /\ ema = c.ema /\ window = c.window /\ span = c.span /\ count = c.count
        /\ clock = 0
        /\ price = Some(tape)
        /\ ying_yang_vol = None /\ pan_bands = None /\ signals = None
        /\ last_signal = None
        /\ position = "neutral"
        /\ outcome = Called("download_data", Returned(Bot))
        /\ trade = NoTrade
        /\ lastFill = "none"

NextVol == calculate_volatility

SpecVol == InitVol /\ [][NextVol]_vars

\* =============================================================== claims
\* what the claims speak of, read off the bot's attributes
Defined(x) == x # NaN

VolColumns == {"ma", "yang_vol", "ying_vol", "total_vol", "YYL", "YYL_slow"}
BandColumns == {"upper_band", "lower_band", "pan_river_up", "pan_river_down"}

\* the rows of the joined table (price, volatility, bands, signals) that have
\* no undefined value
FullyDefinedRows ==
    {t \in DOMAIN Get(ying_yang_vol) :
        /\ \A c \in VolColumns : Defined(Get(ying_yang_vol)[t][c])
        /\ t \in DOMAIN Get(pan_bands)
        /\ \A c \in BandColumns : Defined(Get(pan_bands)[t][c])
        /\ t \in DOMAIN Get(price)
        /\ t \in DOMAIN Get(signals)
        /\ Defined(Get(signals)[t].Entry_Price)
        /\ Defined(Get(signals)[t].Exit_Price)}

HasJoinedTable ==
    ~IsNone(price) /\ ~IsNone(ying_yang_vol) /\ ~IsNone(pan_bands) /\ ~IsNone(signals)

\* status(t) of the claim: +1 above the slow oscillator, -1 below it, 0 when
\* equal or when either is undefined
StatusAt(t) ==
    LET row == Get(ying_yang_vol)[t]
    IN IF ~Defined(row.YYL) \/ ~Defined(row.YYL_slow) THEN 0
       ELSE IF row.YYL[1] > row.YYL_slow[1] THEN 1
       ELSE IF row.YYL[1] < row.YYL_slow[1] THEN -1
       ELSE 0

\* D = status(t) - status(t-1), for a row that has a row before it
DeltaAt(t) == StatusAt(t) - StatusAt(t - 1)

FirstRow == First(DOMAIN Get(ying_yang_vol))

BuyDue(t) ==
    /\ t # FirstRow
    /\ DeltaAt(t) \in {1, 2}
    /\ Defined(Get(ying_yang_vol)[t].YYL)
    /\ Get(ying_yang_vol)[t].YYL[1] < -75 * Scale

SellDue(t) ==
    /\ t # FirstRow
    /\ DeltaAt(t) \in {-1, -2}
    /\ Defined(Get(ying_yang_vol)[t].YYL)
    /\ Get(ying_yang_vol)[t].YYL[1] > 75 * Scale

\* C1: trading_signal emits Buy at a row t >= 1 (Signal = 1, Entry_Price =
\* close(t)) exactly when D is 1 or 2 and oscillator(t) < -75, Sell (Signal =
\* -1, Exit_Price = close(t)) exactly when D is -1 or -2 and oscillator(t) >
\* 75, and the None row (all 0) in every other case and always at row 0
SignalRule ==
    ~IsNone(signals) =>
        /\ DOMAIN Get(signals) = DOMAIN Get(price)
        /\ \A t \in DOMAIN Get(signals) :
            LET row == Get(signals)[t]
                close == <<Get(price)[t]>>
            IN /\ BuyDue(t) => row = [Signal |-> 1, Position |-> 0,
                                      Entry_Price |-> close, Exit_Price |-> <<0>>]
               /\ SellDue(t) => row = [Signal |-> -1, Position |-> 0,
                                       Entry_Price |-> <<0>>, Exit_Price |-> close]
               /\ (~BuyDue(t) /\ ~SellDue(t)) =>
                        row = [Signal |-> 0, Position |-> 0,
                               Entry_Price |-> <<0>>, Exit_Price |-> <<0>>]

\* C1's case: a series on which trading_signal emitted a Buy at one row and a
\* Sell at another
SignalRuleWitness ==
    /\ ~IsNone(signals)
    /\ \E t \in DOMAIN Get(signals) : Get(signals)[t].Signal = 1
    /\ \E t \in DOMAIN Get(signals) : Get(signals)[t].Signal = -1

\* C2: when the joined table has a fully defined row, get_last_signal returns,
\* and the summary is that of the last such row: its timestamp, its close, and
\* 'Buy' / 'Sell' / 'No Signal' for its signal +1 / -1 / 0
LastSignalIsLastDefinedRow ==
    (outcome.op = "get_last_signal" /\ HasJoinedTable /\ FullyDefinedRows # {}) =>
        /\ outcome.result = "returned"
        /\ ~IsNone(last_signal)
        /\ LET t == CHOOSE u \in FullyDefinedRows : \A v \in FullyDefinedRows : v <= u
               code == Get(signals)[t].Signal
           IN /\ Get(last_signal).timestamp = t
              /\ Get(last_signal).entry_price = Get(price)[t]
              /\ code = 1 => Get(last_signal).last_signal = "Buy"
              /\ code = -1 => Get(last_signal).last_signal = "Sell"
              /\ code = 0 => Get(last_signal).last_signal = "No Signal"

\* C2's case: get_last_signal returned on a table with several fully defined
\* rows whose last one carries a signal
LastSignalWitness ==
    /\ outcome.op = "get_last_signal"
    /\ outcome.result = "returned"
    /\ Cardinality(FullyDefinedRows) >= 2
    /\ Get(last_signal).last_signal = "Buy"

\* the closes of the series
ConstantSeries == \A t \in DOMAIN tape : tape[t] = tape[1]
NeverFalling == \A t \in DOMAIN tape : t = 1 \/ tape[t - 1] <= tape[t]
StrictlyRising == \A t \in DOMAIN tape : t = 1 \/ tape[t - 1] < tape[t]

\* the baseline is never above the price
BaselineNotAbove ==
    \A t \in DOMAIN Get(ying_yang_vol) :
        Defined(Get(ying_yang_vol)[t].ma) =>
            Get(ying_yang_vol)[t].ma[1] <= Get(price)[t] * Scale

\* C8: on a constant price series calculate_volatility raises nothing, yangVol
\* and yingVol are 0 wherever defined, the oscillator is undefined at every
\* row, and trading_signal emits None at every row
FlatMarket ==
    ConstantSeries =>
        /\ outcome.op = "calculate_volatility" => outcome.result = "returned"
        /\ ~IsNone(ying_yang_vol) =>
            \A t \in DOMAIN Get(ying_yang_vol) :
                LET row == Get(ying_yang_vol)[t]
                IN /\ Defined(row.yang_vol) => row.yang_vol = <<0>>
                   /\ Defined(row.ying_vol) => row.ying_vol = <<0>>
                   /\ ~Defined(row.YYL)
        /\ ~IsNone(signals) =>
            \A t \in DOMAIN Get(signals) :
                /\ Get(signals)[t].Signal = 0
                /\ Get(signals)[t].Entry_Price = <<0>>
                /\ Get(signals)[t].Exit_Price = <<0>>

\* C8's case: a constant series long enough for the volatilities to be
\* defined, after trading_signal
FlatMarketWitness ==
    /\ ConstantSeries
    /\ ~IsNone(signals)
    /\ \E t \in DOMAIN Get(ying_yang_vol) : Defined(Get(ying_yang_vol)[t].yang_vol)

\* C9: on a series whose closes never fall, with the baseline never above the
\* price, yangVol > yingVol wherever the oscillator is defined, and
\* trading_signal emits no Buy
RisingMarket ==
    (NeverFalling /\ ~IsNone(ying_yang_vol) /\ BaselineNotAbove) =>
        /\ \A t \in DOMAIN Get(ying_yang_vol) :
                LET row == Get(ying_yang_vol)[t]
                IN Defined(row.YYL) => row.yang_vol[1] > row.ying_vol[1]
        /\ ~IsNone(signals) =>
                \A t \in DOMAIN Get(signals) : Get(signals)[t].Signal # 1

\* C9's case: a strictly rising series with the oscillator defined, after
\* trading_signal
RisingMarketWitness ==
    /\ StrictlyRising
    /\ ~IsNone(signals)
    /\ BaselineNotAbove
    /\ \E t \in DOMAIN Get(ying_yang_vol) : Defined(Get(ying_yang_vol)[t].YYL)

\* the number of rows before row t
RowsBefore(t) == t - FirstRow

\* the rows before the first row at which a rolling mean over the baseline's
\* deviations has a full window: the simple baseline itself needs window rows
VolWarmUp == IF ema THEN window - 1 ELSE 2 * (window - 1)

\* C7, as claimed: on a series of at least 2 * window + span rows, in both
\* modes, every column of the volatility frame is defined at every row after
\* the initial window + span - 1 rows
WarmUpAsClaimed ==
    (~IsNone(ying_yang_vol) /\ count >= 2 * window + span) =>
        \A t \in DOMAIN Get(ying_yang_vol) :
            RowsBefore(t) >= window + span - 1 =>
                \A c \in VolColumns : Defined(Get(ying_yang_vol)[t][c])

\* C7, amended: on such a series the baseline is defined at every row in
\* exponential mode and from row window - 1 on in simple mode; yangVol, yingVol
\* and totalVol are defined from row window - 1 on in exponential mode and from
\* row 2 * window - 2 on in simple mode; the oscillator is defined exactly
\* where totalVol is defined and not 0; oscillatorSlow is defined exactly at the
\* rows whose trailing span rows all have a defined oscillator
WarmUp ==
    (~IsNone(ying_yang_vol) /\ count >= 2 * window + span) =>
        \A t \in DOMAIN Get(ying_yang_vol) :
            LET row == Get(ying_yang_vol)[t]
            IN /\ Defined(row.ma) <=> (ema \/ RowsBefore(t) >= window - 1)
               /\ Defined(row.yang_vol) <=> RowsBefore(t) >= VolWarmUp
               /\ Defined(row.ying_vol) <=> RowsBefore(t) >= VolWarmUp
               /\ Defined(row.total_vol) <=> RowsBefore(t) >= VolWarmUp
               /\ Defined(row.YYL) <=> (Defined(row.total_vol) /\ row.total_vol # <<0>>)
               /\ Defined(row.YYL_slow) <=>
                    /\ RowsBefore(t) >= span - 1
                    /\ \A u \in (t - span + 1)..t : Defined(Get(ying_yang_vol)[u].YYL)

\* C7's case: a frame computed in simple mode whose row window + span - 1 is
\* not yet defined and whose last row is
WarmUpWitness ==
    /\ ~IsNone(ying_yang_vol)
    /\ ~ema
    /\ ~Defined(Get(ying_yang_vol)[FirstRow + window + span - 1].YYL_slow)
    /\ \A c \in VolColumns : Defined(Get(ying_yang_vol)[FirstRow + count - 1][c])

\* ----------------------------------------------- claims about the calls
\* the step is a call of the method (the clock does not move during a call)
CallOf(name) == outcome'.op = name /\ clock' = clock

\* the volatility frame is not the one of the price series held
Misaligned ==
    /\ ~IsNone(ying_yang_vol)
    /\ IsNone(price) \/ DOMAIN Get(ying_yang_vol) # DOMAIN Get(price)

\* C3: when the joined table has no fully defined row, get_last_signal raises
\* and last_signal keeps the value it had
EmptyTableRaises ==
    [][(CallOf("get_last_signal") /\ HasJoinedTable /\ FullyDefinedRows = {}) =>
            (outcome'.result = "raised" /\ last_signal' = last_signal)]_vars

\* C3's case: get_last_signal raised on the table of the series held, which
\* has no fully defined row (the oscillator is undefined on its flat stretch),
\* while the summary of an earlier series was held, and the bot still holds it
EmptyTableWitness ==
    /\ outcome.op = "get_last_signal"
    /\ outcome.result = "raised"
    /\ HasJoinedTable
    /\ ying_yang_vol = Some(VolatilityFrame(Get(price), ema, window, span))
    /\ pan_bands = Some(BandFrame(Get(price), Get(ying_yang_vol), span))
    /\ signals = Some(SignalFrame(Get(price), Get(ying_yang_vol)))
    /\ FullyDefinedRows = {}
    /\ ~IsNone(last_signal)

\* C4, as claimed: calculate_pan_bands raises and leaves pan_bands alone when
\* the volatility frame is absent or not aligned to the price series held;
\* trading_signal raises and leaves signals alone when the volatility frame
\* or the band frame is missing
PreconditionsChecked ==
    [][/\ (CallOf("calculate_pan_bands") /\ (IsNone(ying_yang_vol) \/ Misaligned)) =>
            (outcome'.result = "raised" /\ pan_bands' = pan_bands)
       /\ (CallOf("trading_signal") /\ (IsNone(ying_yang_vol) \/ IsNone(pan_bands))) =>
            (outcome'.result = "raised" /\ signals' = signals)]_vars

\* the call reached a summary: get_last_signal returned, or run() got past its
\* get_last_signal (and then attempted the trade)
SummaryProduced ==
    \/ outcome.op = "get_last_signal" /\ outcome.result = "returned"
    \/ outcome.op = "run" /\ Len(outcome.steps) >= 6

\* C6, as claimed: whenever a summary is produced or a trade attempted, the
\* volatility frame, the band frame, the signals and the summary are the ones
\* derived from the price series held
FramesOfCurrentSnapshot ==
    SummaryProduced =>
        /\ ~IsNone(price)
        /\ ying_yang_vol = Some(VolatilityFrame(Get(price), ema, window, span))
        /\ pan_bands = Some(BandFrame(Get(price), Get(ying_yang_vol), span))
        /\ signals = Some(SignalFrame(Get(price), Get(ying_yang_vol)))

\* the step is a call of run()
RunCall == CallOf("run")

\* run() executed execute_trade and a failure was caught inside it
TradeFailedInRun ==
    outcome.op = "run" /\ Len(outcome.steps) >= 6 /\ trade.error

\* C5, as claimed: when a step of run() fails, no later step of the cycle is
\* executed and the caller of run() sees an error, not a normal completion
FailureSurfaces ==
    (outcome.op = "run" /\ (outcome.failed # "none" \/ TradeFailedInRun)) =>
        /\ outcome.result = "raised"
        /\ TradeFailedInRun => Len(outcome.steps) = 6

\* C5, amended: when download_data, calculate_volatility, calculate_pan_bands,
\* trading_signal, get_last_signal or notion_update fails in run(), no later
\* step of the cycle is executed (the steps up to the failing one ran; when it
\* came before execute_trade no order is placed and position is unchanged);
\* run() catches the failure, sends the error message and returns normally.  A
\* failure caught inside execute_trade does not end the cycle: notion_update
\* runs next
FailureCaughtInRun ==
    [][RunCall =>
        LET o == outcome'
            n == Len(o.steps)
        IN /\ o.result = "returned"
           /\ o.steps = SubSeq(RunSteps, 1, n)
           /\ o.failed # "none" =>
                /\ o.failed = RunSteps[n]
                /\ o.notified = "error"
           /\ o.failed = "none" => (n = Len(RunSteps) /\ o.notified = "update")
           /\ IsNone(price') =>
                /\ o.failed = "download_data"
                /\ ying_yang_vol' = ying_yang_vol /\ pan_bands' = pan_bands
                /\ signals' = signals
           /\ (~IsNone(price') /\ FullyDefinedRows' = {}) => o.failed = "get_last_signal"
           /\ n < 6 => (trade' = trade /\ position' = position /\ lastFill' = lastFill)
           /\ n <= 5 => last_signal' = last_signal
           /\ (n >= 6 /\ trade'.error) => n >= 7
      ]_vars

\* C5's case: a run() in which the trade failed and the cycle went on to the
\* update message
FailureCaughtWitness ==
    /\ outcome.op = "run"
    /\ outcome.steps = RunSteps
    /\ trade.error
    /\ trade.placed = "buy"

\* the step executed the body of execute_trade, directly or inside run()
TradeStep ==
    \/ CallOf("execute_trade") /\ outcome'.result = "returned"
    \/ CallOf("run") /\ Len(outcome'.steps) >= 6

\* C10: a buy order is placed only on a 'Buy' summary with position neutral, a
\* sell order only on 'Sell' with position long; position goes from neutral to
\* long only with a buy order that succeeded and from long to neutral only
\* with a sell order that succeeded, and is unchanged otherwise; no buy order
\* succeeds when the last order that succeeded was a buy
TradeRule ==
    [][/\ TradeStep =>
            /\ trade'.placed = "buy" =>
                    (Get(last_signal').last_signal = "Buy" /\ position = "neutral")
            /\ trade'.placed = "sell" =>
                    (Get(last_signal').last_signal = "Sell" /\ position = "long")
            /\ (trade'.placed = "buy" /\ trade'.ok) => lastFill # "buy"
            /\ position' # position =>
                    \/ /\ position = "neutral" /\ position' = "long"
                       /\ trade'.placed = "buy" /\ trade'.ok
                    \/ /\ position = "long" /\ position' = "neutral"
                       /\ trade'.placed = "sell" /\ trade'.ok
            /\ lastFill' = IF trade'.ok THEN trade'.placed ELSE lastFill
       /\ ~TradeStep => (position' = position /\ lastFill' = lastFill /\ trade' = trade)
      ]_vars

\* C10's case: a buy order that succeeded after a sell order had succeeded
TradeRuleWitness ==
    /\ trade.placed = "buy"
    /\ trade.ok
    /\ trade.prevFill = "sell"
    /\ position = "long"

====
